---- MODULE Spec2Model ----
(***************************************************************************)
(* Model of bitbalance: the SQL balance storage, the write-back            *)
(* BalanceProxyCache in front of it and the BalanceProcessor that applies  *)
(* blocks.  One writer thread issues update / commit / add_block /         *)
(* backtrack serially; reader threads call BalanceProxyCache.get at any    *)
(* time, also between the steps of a commit.                               *)
(***************************************************************************)
EXTENDS Integers, Sequences, FiniteSets, TLC

\* ------------------------------------------------------------------ bounds
\* Highest block / commit height the writer uses.
MaxHeight == 2
\* max_cache_size of the BalanceProxyCache under check.
MaxCache == 1
\* backtrack_limit of the BalanceProcessor under check.
W == 1
\* Largest absolute pending delta of one address between two commits.
MaxPending == 1
\* Longest chain the node serves, in blocks (heights 0 .. MaxChain - 1).
MaxChain == 4
\* Number of times the node replaces its tip block.
MaxReorgs == 1
\* cache_size of the BlockPrefetchingCache under check (BLOCK_CACHE_SIZE).
MaxQueue == 1
\* Largest size a TxOutCache under check is built with.
MaxTxOutSize == 2
\* Depth at which the interpreter ends a recursion with RecursionError.
RecursionLimit == 3

Addr == {"A", "B"}
Readers == {"r1"}
\* Amounts passed to BalanceProxyCache.update.
Deltas == {-1, 1}

VARIABLES
    db_balance,      \* table address_balance: address -> balance, one entry per row
    db_blocks,       \* table blocks (BlockHeight rows) in id order
    storage_height,  \* SQLBalanceStorage._height
    cache,           \* BalanceProxyCache._cache (OrderedDict, oldest first)
    updates,         \* BalanceProxyCache._updates (dict in insertion order)
    cache_height,    \* BalanceProxyCache._height
    trim_cache,      \* BalanceProxyCache._trim_cache
    commit_pc,       \* position of the writer inside commit()/_commit()
    commit_height,   \* _commit's argument height
    to_insert,       \* _commit's local to_insert
    to_update,       \* _commit's local to_update
    to_delete,       \* _commit's local to_delete
    update_calls,    \* the calls of storage.update the last commit() made, with their arguments
    r_pc,            \* per reader: "idle", or "retry" after a miss was loaded
    r_addr,          \* per reader: the address of the get in progress
    blocks,          \* BalanceProcessor._blocks
    address_balance, \* BalanceProcessor._address_balance
    address_records, \* BalanceProcessor._address_records
    w_last,          \* the writer's last completed call and how it ended
    mem_balance,     \* MemoryBalanceStorage._balance
    mem_height,      \* MemoryBalanceStorage._height
    unspent,         \* the chain: per address the value of its unspent outputs
    chain_valid,     \* the chain: the blocks handed to add_block form one valid chain
    node_chain,      \* bitcoind: the bodies of the best chain's blocks, genesis first
    n_reorgs,        \* bitcoind: how often the tip block was replaced
    bc_height,       \* BlockPrefetchingCache._height
    bc_queue,        \* BlockPrefetchingCache._cache, the queue in use
    ft_pc,           \* fetch thread: "fetch", "put", or "dead" after an exception
    ft_current,      \* fetch thread: current_height
    ft_block,        \* fetch thread: cblock
    ft_stale,        \* fetch thread: its local cache is a queue that set_height replaced
    ft_old_full,     \* that replaced queue has been filled with (None, None)
    f_block_hash,    \* BitcoinBalanceFacade._block_hash
    f_block_height,  \* BitcoinBalanceFacade._block_height
    f_pc,            \* poll thread: "poll" at the top of its loop, "get" inside
                     \* get_next_block, "purge" inside set_height, "done", "dead"
    f_stop_flag,     \* BitcoinBalanceFacade._stop_flag
    bc_stop_event,   \* BlockPrefetchingCache._stop_event
    txout_cache,     \* TxOutCache._txout_cache: its keys (tx, nout), oldest insertion first
    toc_max_size,    \* TxOutCache._max_size
    toc_used,        \* the keys of txout_cache, least recently read or inserted first
    toc_pc,          \* get_txout: "idle", "rpc", "adding", "retry"
    toc_req,         \* get_txout's arguments (txhash, nout)
    toc_i,           \* get_txout: index of the next output of tx.vout to add
    toc_depth,       \* get_txout: depth of its recursion
    toc_rpcs,        \* get_transaction calls made by the get_txout in progress or last ended
    toc_last,        \* the last call of the TxOutCache or BlockFactory that ended, and how
    bf_pc,           \* build_block: "idle", "outputs", "inputs", "wait"
    bf_block,        \* build_block's argument block (its vtx)
    bf_i,            \* build_block: index of the next output or input
    px_proxy,        \* BitcoindProxy._proxy: "None" or "conn"
    px_lock,         \* BitcoindProxy._lock: "free", or the thread that holds it
    px_stop_event,   \* BitcoindProxy._stop_event
    px_rc_pc,        \* reconnect thread: "wait", "lock", "locked", "done"
    px_node_up,      \* bitcoind answers requests
    px_last,         \* the last RPC method call or _connect that ended, and how
    lk_owner,        \* per lock: the thread inside its `with` block, or "free"
    lk_pc            \* per thread: the code path it is on and its next lock operation

storeVars == <<db_balance, db_blocks, storage_height, update_calls>>
cacheVars == <<cache, updates, cache_height, trim_cache>>
commitVars == <<commit_pc, commit_height, to_insert, to_update, to_delete>>
readerVars == <<r_pc, r_addr>>
procVars == <<blocks, address_balance, address_records>>
memVars == <<mem_balance, mem_height>>
\* What the cache and the processor never touch.
txoutVars == <<txout_cache, toc_max_size, toc_used, toc_pc, toc_req, toc_i, toc_depth,
               toc_rpcs, toc_last>>
factoryVars == <<bf_pc, bf_block, bf_i>>
proxyVars == <<px_proxy, px_lock, px_stop_event, px_rc_pc, px_node_up, px_last>>
lockVars == <<lk_owner, lk_pc>>
envVars == <<memVars, txoutVars, factoryVars, proxyVars, lockVars>>
\* The chain the blocks come from.
chainVars == <<unspent, chain_valid>>
\* What belongs to the caller of add_block and backtrack.
nodeVars == <<node_chain, n_reorgs>>
fetchVars == <<bc_height, bc_queue, ft_pc, ft_current, ft_block, ft_stale, ft_old_full>>
facadeVars == <<f_block_hash, f_block_height, f_pc>>
stopVars == <<f_stop_flag, bc_stop_event>>
driverVars == <<nodeVars, fetchVars, facadeVars, stopVars>>
callerVars == <<chainVars, driverVars>>
vars == <<storeVars, cacheVars, commitVars, readerVars, procVars, w_last, envVars, callerVars>>

\* ------------------------------------------------------- ordered dictionaries
\* A Python dict / OrderedDict is a sequence of [addr, value] entries in
\* insertion order.
EmptyMap == [a \in {} |-> 0]

\* What a reader's local holds while no get is running.
NoAddress == ""
\* The height of a storage without a block row (SQLBalanceStorage.__init__); also
\* what _commit's height holds while no commit is running.
NoHeight == -1

Keys(d) == {d[i].addr : i \in 1..Len(d)}

IndexOf(d, a) == CHOOSE i \in 1..Len(d) : d[i].addr = a

Lookup(d, a) == d[IndexOf(d, a)].value

Remove(d, a) == SelectSeq(d, LAMBDA e : e.addr # a)

\* d[a] = v: a new key goes last, an existing key keeps its place.
SetItem(d, a, v) ==
    IF a \in Keys(d)
    THEN [d EXCEPT ![IndexOf(d, a)].value = v]
    ELSE Append(d, [addr |-> a, value |-> v])

\* OrderedDict.move_to_end(a)
MoveToEnd(d, a) == Append(Remove(d, a), d[IndexOf(d, a)])

\* OrderedDict.popitem(last=False)
PopOldest(d) == Tail(d)

\* dict.get(a, 0)
GetOr0(d, a) == IF a \in Keys(d) THEN Lookup(d, a) ELSE 0

\* A function as the dict it stands for, restricted / extended.
DropKey(f, a) == [x \in DOMAIN f \ {a} |-> f[x]]

PutKey(f, a, v) == [x \in DOMAIN f \cup {a} |-> IF x = a THEN v ELSE f[x]]

\* ------------------------------------------------------------ SQL storage
\* SQLBalanceStorage.get(address, 0)
StorageGet(a) == IF a \in DOMAIN db_balance THEN db_balance[a] ELSE 0

\* The mutation "get_bulk finds no row".
StorageGetBulk_NoRows(as) == [a \in {} |-> 0]

\* SQLBalanceStorage.get_bulk: the rows among the asked addresses.
StorageGetBulk(as) == [a \in as \cap DOMAIN db_balance |-> db_balance[a]]

\* SQLBalanceStorage.__init__: the height of the last blocks row, -1 without one.
LoadHeight(rows) == IF rows = <<>> THEN NoHeight ELSE rows[Len(rows)]

\* The mutation "the delete query removes nothing".
DeleteRows_KeepAll(table, del) == table

\* The session.delete of the delete argument: the named rows go.
DeleteRows(table, del) == [x \in DOMAIN table \ del |-> table[x]]

\* bulk_update_mappings: an UPDATE per mapping, which changes the rows it finds.
UpdateRows(table, upd) ==
    [x \in DOMAIN table |-> IF x \in DOMAIN upd THEN upd[x] ELSE table[x]]

\* bulk_insert_mappings: new rows; the primary key refuses an address already there.
InsertRows(table, ins) ==
    [x \in DOMAIN table \cup DOMAIN ins |-> IF x \in DOMAIN ins THEN ins[x] ELSE table[x]]

\* The mutation "the old blocks rows are kept".
ClearBlocks_KeepRows(rows) == rows

\* session.query(BlockHeight).delete(): every row of the blocks table goes.
ClearBlocks(rows) == <<>>

\* SQLBalanceStorage.update as one transaction: the tables after it, or the
\* tables as they were when the insert violates the primary key (rollback).
SQLUpdate(table, rows, ins, upd, del, h) ==
    IF DOMAIN ins \cap DOMAIN table # {}
    THEN [ok |-> FALSE, balance |-> table, blocks |-> rows]
    ELSE [ok |-> TRUE,
          balance |-> DeleteRows(UpdateRows(InsertRows(table, ins), upd), del),
          blocks |-> Append(ClearBlocks(rows), h)]

\* SQLBalanceStorage.update(insert, update, delete, height) called directly.  The
\* exception of a refused insert leaves the method before _height is assigned.
\* For a direct call w_last also keeps the addresses of the insert argument.
sql_update(ins, upd, del, h) ==
    /\ commit_pc = "idle"
    /\ LET res == SQLUpdate(db_balance, db_blocks, ins, upd, del, h)
       IN  /\ db_balance' = res.balance
           /\ db_blocks' = res.blocks
           /\ storage_height' = IF res.ok THEN h ELSE storage_height
           /\ w_last' = [op |-> "sql_update", insert |-> DOMAIN ins,
                         outcome |-> IF res.ok THEN "ok" ELSE "IntegrityError"]
    /\ UNCHANGED <<update_calls, cacheVars, commitVars, readerVars, procVars, envVars, callerVars>>

\* ---------------------------------------------------------- memory storage
\* dict.update(mapping): every key of the mapping is set, new or not.
DictUpdate(d, mapping) ==
    [x \in DOMAIN d \cup DOMAIN mapping |-> IF x \in DOMAIN mapping THEN mapping[x] ELSE d[x]]

\* The loop of dict.pop(addr, None) over the delete argument.
DictPopAll(d, del) == [x \in DOMAIN d \ del |-> d[x]]

\* MemoryBalanceStorage.update(insert, update, delete, height).
mem_update(ins, upd, del, h) ==
    /\ commit_pc = "idle"
    /\ mem_balance' = DictPopAll(DictUpdate(DictUpdate(mem_balance, ins), upd), del)
    /\ mem_height' = h
    /\ w_last' = [op |-> "mem_update", insert |-> DOMAIN ins, outcome |-> "ok"]
    /\ UNCHANGED <<storeVars, cacheVars, commitVars, readerVars, procVars, callerVars,
                   txoutVars, factoryVars, proxyVars, lockVars>>

\* ------------------------------------------------------- BalanceProxyCache
\* _load_to_cache(address), called on a miss with the cache lock held.
LoadToCache(c, a, trim) ==
    IF a \in Keys(c)
    THEN MoveToEnd(c, a)
    ELSE LET loaded == Append(c, [addr |-> a, value |-> StorageGet(a)])
         IN  IF trim /\ Len(loaded) > MaxCache THEN PopOldest(loaded) ELSE loaded

\* First loop of _load_to_cache_bulk: cached addresses move to the end.
RECURSIVE TouchCached(_, _)
TouchCached(c, us) ==
    IF us = <<>> THEN c
    ELSE TouchCached(IF Head(us).addr \in Keys(c) THEN MoveToEnd(c, Head(us).addr) ELSE c,
                     Tail(us))

\* Second loop of _load_to_cache_bulk: the missing ones are appended with the
\* stored value, 0 for an address get_bulk did not return.
RECURSIVE LoadMissing(_, _, _)
LoadMissing(c, us, stored) ==
    IF us = <<>> THEN c
    ELSE LET a == Head(us).addr
         IN  LoadMissing(IF a \in Keys(c) THEN c
                         ELSE Append(c, [addr |-> a,
                                         value |-> IF a \in DOMAIN stored THEN stored[a] ELSE 0]),
                         Tail(us), stored)

\* The trailing while loop of _load_to_cache_bulk.
RECURSIVE TrimTo(_, _)
TrimTo(c, trim) ==
    IF trim /\ Len(c) > MaxCache THEN TrimTo(PopOldest(c), trim) ELSE c

LoadToCacheBulk(c, us, trim) ==
    LET to_load == {us[i].addr : i \in 1..Len(us)} \ Keys(c)
    IN  TrimTo(LoadMissing(TouchCached(c, us), us, StorageGetBulk(to_load)), trim)

\* The mutation "an address whose balance returns to 0 is updated, not deleted".
ClassifyOne_NoDelete(stored_value, value) ==
    IF stored_value = 0
    THEN [kind |-> "insert", balance |-> value]
    ELSE [kind |-> "update", balance |-> stored_value + value]

\* The mutation "an updated row gets the delta instead of the new balance".
ClassifyOne_RawUpdate(stored_value, value) ==
    IF stored_value = 0
    THEN [kind |-> "insert", balance |-> value]
    ELSE IF stored_value + value = 0
         THEN [kind |-> "delete", balance |-> 0]
         ELSE [kind |-> "update", balance |-> value]

\* One iteration of _commit's classification loop.
ClassifyOne(stored_value, value) ==
    IF stored_value = 0
    THEN [kind |-> "insert", balance |-> value]
    ELSE IF stored_value + value = 0
         THEN [kind |-> "delete", balance |-> 0]
         ELSE [kind |-> "update", balance |-> stored_value + value]

\* The addresses of the pending updates that classify as kind, with the balance
\* the storage is to hold for them.
Classified(c, us, kind) ==
    LET hit == {a \in Keys(us) : ClassifyOne(Lookup(c, a), Lookup(us, a)).kind = kind}
    IN  [a \in hit |-> ClassifyOne(Lookup(c, a), Lookup(us, a)).balance]

\* The mutation "the merge forgets to empty the pending updates".
AfterMerge_KeepUpdates(us) == us

\* _commit's "self._updates = defaultdict(int)" after the merge.
AfterMerge(us) == <<>>

\* _commit's merge loop: cache[addr] += update for every pending update.
RECURSIVE MergeUpdates(_, _)
MergeUpdates(c, us) ==
    IF us = <<>> THEN c
    ELSE MergeUpdates(SetItem(c, Head(us).addr, Lookup(c, Head(us).addr) + Head(us).value),
                      Tail(us))

\* BalanceProxyCache.update's arithmetic: a delta that returns to 0 is dropped.
AddUpdate(us, a, v) ==
    LET sum == GetOr0(us, a) + v
    IN  IF sum = 0 THEN Remove(us, a) ELSE SetItem(us, a, sum)

\* The value get(a) returns when it runs from the current state: the cached
\* baseline, or on a miss the stored one that _load_to_cache fetches, plus the
\* pending delta.
Pending(a) == GetOr0(updates, a)

GetResult(a) ==
    (IF a \in Keys(cache) THEN Lookup(cache, a) ELSE StorageGet(a)) + Pending(a)

Abs(x) == IF x < 0 THEN -x ELSE x

\* BalanceProxyCache.get(address) by reader r: one pass through the locked block.
\* A hit returns cache[address] + updates.get(address, 0), which is GetResult;
\* a miss loads the address and calls get again.
get(r, a) ==
    /\ r_pc[r] = "retry" => a = r_addr[r]
    /\ IF a \in Keys(cache)
       THEN /\ r_pc' = [r_pc EXCEPT ![r] = "idle"]
            /\ r_addr' = [r_addr EXCEPT ![r] = NoAddress]
            /\ UNCHANGED cache
       ELSE /\ cache' = LoadToCache(cache, a, trim_cache)
            /\ r_pc' = [r_pc EXCEPT ![r] = "retry"]
            /\ r_addr' = [r_addr EXCEPT ![r] = a]
    /\ UNCHANGED <<storeVars, updates, cache_height, trim_cache, commitVars, procVars, w_last, envVars, callerVars>>

\* The locked block of a get(address) that another thread runs and that
\* misses: the address is loaded, which may push out the oldest entry.  (A hit
\* of that block changes nothing.)
get_other(a) ==
    /\ a \notin Keys(cache)
    /\ cache' = LoadToCache(cache, a, trim_cache)
    /\ UNCHANGED <<storeVars, updates, cache_height, trim_cache, commitVars, readerVars,
                   procVars, w_last, envVars, callerVars>>

\* BalanceProxyCache.update(address, value), by the writer.
update(a, v) ==
    /\ commit_pc = "idle"
    /\ Abs(GetOr0(updates, a) + v) <= MaxPending
    /\ updates' = IF v = 0 THEN updates ELSE AddUpdate(updates, a, v)
    /\ w_last' = [op |-> "update", outcome |-> "ok"]
    /\ UNCHANGED <<storeVars, cache, cache_height, trim_cache, commitVars, readerVars, procVars, envVars, callerVars>>

\* The mutation "a commit at the current height is carried out".
CheckHeight_NoReturn(h, height) == IF h < height THEN "AssertionError" ELSE "run"

\* _commit's first two statements: the assert on the height (asserts enabled)
\* and the return when the height is the current one.
CheckHeight(h, height) ==
    IF h < height THEN "AssertionError" ELSE IF h = height THEN "noop" ELSE "run"

\* commit(height) up to the first locked block: the wrapper disables the trim,
\* _commit checks the height, returns when it is the current one and records it
\* otherwise.
commit(h) ==
    /\ commit_pc = "idle"
    /\ update_calls' = <<>>
    /\ IF CheckHeight(h, cache_height) = "AssertionError"
       THEN /\ w_last' = [op |-> "commit", outcome |-> "AssertionError"]
            /\ UNCHANGED <<commit_pc, commit_height, cache_height, trim_cache>>
       ELSE IF CheckHeight(h, cache_height) = "noop"
       THEN /\ w_last' = [op |-> "commit", outcome |-> "noop"]
            /\ UNCHANGED <<commit_pc, commit_height, cache_height, trim_cache>>
       ELSE /\ commit_pc' = "load"
            /\ commit_height' = h
            /\ cache_height' = h
            /\ trim_cache' = FALSE
            /\ UNCHANGED w_last
    /\ UNCHANGED <<db_balance, db_blocks, storage_height, cache, updates, to_insert,
                   to_update, to_delete, readerVars, procVars, envVars, callerVars>>

\* _commit, first locked block: preload the baselines and classify the updates.
commit_load ==
    /\ commit_pc = "load"
    /\ LET loaded == LoadToCacheBulk(cache, updates, trim_cache)
       IN  /\ cache' = loaded
           /\ to_insert' = Classified(loaded, updates, "insert")
           /\ to_update' = Classified(loaded, updates, "update")
           /\ to_delete' = DOMAIN Classified(loaded, updates, "delete")
    /\ commit_pc' = "merge"
    /\ UNCHANGED <<storeVars, updates, cache_height, trim_cache, commit_height,
                   readerVars, procVars, w_last, envVars, callerVars>>

\* _commit, second locked block: merge the updates into the cache.
commit_merge ==
    /\ commit_pc = "merge"
    /\ cache' = MergeUpdates(cache, updates)
    /\ updates' = AfterMerge(updates)
    /\ commit_pc' = "store"
    /\ UNCHANGED <<storeVars, cache_height, trim_cache, commit_height, to_insert,
                   to_update, to_delete, readerVars, procVars, w_last, envVars, callerVars>>

\* _commit's call of storage.update, outside the cache lock.  When the storage
\* raises, the exception leaves _commit and the wrapper's finally restores the trim.
commit_store ==
    /\ commit_pc = "store"
    /\ update_calls' = Append(update_calls,
                              [insert |-> to_insert, update |-> to_update,
                               delete |-> to_delete, height |-> commit_height])
    /\ LET res == SQLUpdate(db_balance, db_blocks, to_insert, to_update, to_delete,
                            commit_height)
       IN  /\ db_balance' = res.balance
           /\ db_blocks' = res.blocks
           /\ IF res.ok
              THEN /\ storage_height' = commit_height
                   /\ commit_pc' = "trim"
                   /\ UNCHANGED <<trim_cache, w_last, commit_height, to_insert,
                                  to_update, to_delete>>
              ELSE /\ commit_pc' = "idle"
                   /\ trim_cache' = TRUE
                   /\ w_last' = [op |-> "commit", outcome |-> "IntegrityError"]
                   /\ commit_height' = NoHeight
                   /\ to_insert' = EmptyMap
                   /\ to_update' = EmptyMap
                   /\ to_delete' = {}
                   /\ UNCHANGED storage_height
    /\ UNCHANGED <<cache, updates, cache_height, readerVars, procVars, envVars, callerVars>>

\* _commit's call of storage.update when the database refuses the transaction:
\* make_session_scope rolls the session back and raises again, update does not
\* reach its assignment of _height, _commit and commit are left by the
\* exception and commit's finally block runs.
commit_store_fails ==
    /\ commit_pc = "store"
    /\ update_calls' = Append(update_calls,
                              [insert |-> to_insert, update |-> to_update,
                               delete |-> to_delete, height |-> commit_height])
    /\ commit_pc' = "idle"
    /\ trim_cache' = TRUE
    /\ w_last' = [op |-> "commit", outcome |-> "SQLAlchemyError"]
    /\ commit_height' = NoHeight
    /\ to_insert' = EmptyMap
    /\ to_update' = EmptyMap
    /\ to_delete' = {}
    /\ UNCHANGED <<db_balance, db_blocks, storage_height, cache, updates, cache_height,
                   readerVars, procVars, envVars, callerVars>>

\* _commit's final loop, one locked popitem per iteration.
commit_trim ==
    /\ commit_pc = "trim"
    /\ IF Len(cache) > MaxCache
       THEN /\ cache' = PopOldest(cache)
            /\ UNCHANGED commit_pc
       ELSE /\ commit_pc' = "end"
            /\ UNCHANGED cache
    /\ UNCHANGED <<storeVars, updates, cache_height, trim_cache, commit_height,
                   to_insert, to_update, to_delete, readerVars, procVars, w_last, envVars, callerVars>>

\* commit's finally: the trim is enabled again and commit returns.
commit_end ==
    /\ commit_pc = "end"
    /\ trim_cache' = TRUE
    /\ commit_pc' = "idle"
    /\ w_last' = [op |-> "commit", outcome |-> "done"]
    /\ commit_height' = NoHeight
    /\ to_insert' = EmptyMap
    /\ to_update' = EmptyMap
    /\ to_delete' = {}
    /\ UNCHANGED <<storeVars, cache, updates, cache_height, readerVars, procVars, envVars, callerVars>>

\* -------------------------------------------------------- BalanceProcessor
OP_RECEIVED == 1
OP_SPENT == 2
\* balance.py's COINBASE_TX, the tx of an input that spends nothing.
COINBASE_TX == "0000"
\* primitives.py's COINBASE_TX, the all-zero prevout hash as the node's blocks
\* carry it: 32 zero bytes, which no text of zeros equals.
PRIMITIVES_COINBASE_TX == "b0000"

\* TxOut(tx, nout, addr, value); addr "" is an output without an address.
TxA1 == [tx |-> "t1", nout |-> 1, addr |-> "A", value |-> 1]
TxB1 == [tx |-> "t2", nout |-> 1, addr |-> "B", value |-> 1]
TxA0 == [tx |-> "t3", nout |-> 1, addr |-> "A", value |-> 0]
TxNone == [tx |-> "t3", nout |-> 2, addr |-> "", value |-> 1]
TxCoinbase == [tx |-> COINBASE_TX, nout |-> 0, addr |-> "B", value |-> 1]
TxCoinbaseIn == [tx |-> PRIMITIVES_COINBASE_TX, nout |-> 0, addr |-> "B", value |-> 1]

\* The transaction contents the chain's blocks are drawn from: an empty block,
\* a credit of A, a payment from A to B, a block that credits A and spends that
\* output again, a block whose records all drop out, and a block whose input
\* has the all-zero prevout hash in the bytes the node's blocks carry.
Bodies == {"empty", "credit_A", "pay_A_to_B", "credit_spend_A", "no_record", "coinbase_in"}

BodyVin(body) ==
    CASE body = "pay_A_to_B" -> <<TxA1>>
      [] body = "credit_spend_A" -> <<TxA1>>
      [] body = "no_record" -> <<TxCoinbase>>
      [] body = "coinbase_in" -> <<TxCoinbaseIn>>
      [] OTHER -> <<>>

BodyVout(body) ==
    CASE body = "credit_A" -> <<TxA1>>
      [] body = "pay_A_to_B" -> <<TxB1>>
      [] body = "credit_spend_A" -> <<TxA1>>
      [] body = "no_record" -> <<TxA0, TxNone>>
      [] OTHER -> <<>>

\* Block(block_hash, height, vin, vout)
Block(h, body) ==
    [block_hash |-> <<h, body>>, height |-> h, vin |-> BodyVin(body), vout |-> BodyVout(body)]

\* The TxoRecords add_block passes to _add_record, in its order: the outputs with
\* an address and a value, then the inputs with an address that are no coinbase.
OutRecords(block) ==
    LET kept == SelectSeq(block.vout, LAMBDA o : ~(o.addr = "" \/ o.value = 0))
    IN  [i \in 1..Len(kept) |-> [op_type |-> OP_RECEIVED, txo |-> kept[i],
                                 height |-> block.height]]

InRecords(block) ==
    LET kept == SelectSeq(block.vin, LAMBDA o : ~(o.addr = "" \/ o.tx = COINBASE_TX))
    IN  [i \in 1..Len(kept) |-> [op_type |-> OP_SPENT, txo |-> kept[i],
                                 height |-> block.height]]

\* The mutation "the inputs are debited before the outputs are credited".
BlockRecords_InputsFirst(block) == InRecords(block) \o OutRecords(block)

BlockRecords(block) == OutRecords(block) \o InRecords(block)

\* The signed amount a record adds to its address.
RecordDelta(rec) == IF rec.op_type = OP_RECEIVED THEN rec.txo.value ELSE -rec.txo.value

RECURSIVE SumDeltas(_, _)
SumDeltas(recs, a) ==
    IF recs = <<>> THEN 0
    ELSE (IF Head(recs).txo.addr = a THEN RecordDelta(Head(recs)) ELSE 0)
         + SumDeltas(Tail(recs), a)

\* What a block adds to the balance of address a.
BlockDelta(block, a) == SumDeltas(BlockRecords(block), a)

RECURSIVE RingDelta(_, _)
RingDelta(ring, a) ==
    IF ring = <<>> THEN 0 ELSE BlockDelta(Head(ring), a) + RingDelta(Tail(ring), a)

\* _add_record(address, record): the record is appended and, in a transaction of
\* its own, the address's row is fetched or created with balance 0, changed by
\* the record's value and written back; a row that reaches 0 is not kept.  The
\* assert after the transaction raises on a negative balance.
AddRecord(st, rec) ==
    LET a == rec.txo.addr
        old == IF a \in DOMAIN st.table THEN st.table[a] ELSE 0
        new == old + RecordDelta(rec)
    IN  [records |-> [st.records EXCEPT ![a] = Append(@, rec)],
         table |-> IF new = 0 THEN DropKey(st.table, a) ELSE PutKey(st.table, a, new),
         raised |-> new < 0]

\* add_block's two loops: the records one after the other, up to the first
\* failed assert.
RECURSIVE AddRecords(_, _)
AddRecords(st, recs) ==
    IF recs = <<>> \/ st.raised THEN st
    ELSE AddRecords(AddRecord(st, Head(recs)), Tail(recs))

\* _del_record's while loop: records are popped from the front while the first
\* one is at height or below.
RECURSIVE PopUpTo(_, _)
PopUpTo(records, h) ==
    IF records # <<>> /\ Head(records).height <= h THEN PopUpTo(Tail(records), h) ELSE records

\* _del_record(address, height); an address left without records reads as the
\* empty list of the defaultdict.
DelRecord(records, a, h) == [records EXCEPT ![a] = PopUpTo(@, h)]

\* _remove_oldest_block's loops over the block's outputs and inputs.
RECURSIVE DelRecords(_, _, _)
DelRecords(records, txos, h) ==
    IF txos = <<>> THEN records
    ELSE DelRecords(IF Head(txos).addr # "" THEN DelRecord(records, Head(txos).addr, h)
                    ELSE records,
                    Tail(txos), h)

\* add_block's test for dropping the oldest block, made before the append.
RingIsFull(ring) == Len(ring) > W

\* BalanceProcessor.add_block(block), by the writer.
add_block(block) ==
    /\ commit_pc = "idle"
    /\ LET full == RingIsFull(blocks)
           oldest == Head(blocks)
           kept == IF full THEN Tail(blocks) ELSE blocks
           recs0 == IF full
                    THEN DelRecords(address_records, oldest.vout \o oldest.vin, oldest.height)
                    ELSE address_records
           st == AddRecords([records |-> recs0, table |-> db_balance, raised |-> FALSE],
                            BlockRecords(block))
       IN  /\ blocks' = Append(kept, block)
           /\ address_records' = st.records
           /\ db_balance' = st.table
           /\ w_last' = [op |-> "add_block",
                         outcome |-> IF st.raised THEN "AssertionError" ELSE "ok"]
    /\ UNCHANGED <<db_blocks, storage_height, update_calls, cacheVars, commitVars,
                   readerVars, address_balance, envVars>>

\* BalanceProcessor.backtrack(): the body is "pass".
backtrack ==
    /\ commit_pc = "idle"
    /\ w_last' = [op |-> "backtrack", outcome |-> "ok"]
    /\ UNCHANGED <<storeVars, cacheVars, commitVars, readerVars, procVars, envVars>>

\* BalanceProcessor.get_balance(address, confirmations): the balance it reads from
\* _address_balance, and the AttributeError of _get_unconfirmed, which reads the
\* attribute _address_utxo that no method sets.
get_balance(a) ==
    [balance |-> IF a \in DOMAIN address_balance THEN address_balance[a] ELSE 0,
     raised |-> "AttributeError"]

\* BalanceProcessor.top_block: it reads self._last_blocks, an attribute that no
\* method sets (the ring is self._blocks), so the property raises before it
\* returns a block.
top_block == [raised |-> "AttributeError"]

\* BalanceProcessor.top_block_height: it evaluates top_block first, whose
\* exception leaves the property.  The class has no other height attribute.
top_block_height == top_block

\* A call of get_balance by the writer.
call_get_balance(a) ==
    /\ commit_pc = "idle"
    /\ w_last' = [op |-> "get_balance", outcome |-> get_balance(a).raised]
    /\ UNCHANGED <<storeVars, cacheVars, commitVars, readerVars, procVars, envVars, callerVars>>

\* The height of the next block of the chain: one past the ring's newest block,
\* or one past the committed height while the ring is empty.
NextBlockHeight ==
    IF blocks = <<>> THEN cache_height + 1 ELSE blocks[Len(blocks)].height + 1

\* The chain's side of a block: its inputs spend outputs that exist, created by
\* earlier blocks or by the block itself, when no address is left with less than
\* nothing unspent.
ValidBlock(block) == \A a \in Addr : unspent[a] + BlockDelta(block, a) >= 0

\* The chain after the block: it stays one valid chain when the block is valid.
ChainAdd(block) ==
    /\ chain_valid' = (chain_valid /\ ValidBlock(block))
    /\ unspent' = IF ValidBlock(block)
                  THEN [a \in Addr |-> unspent[a] + BlockDelta(block, a)]
                  ELSE unspent

\* The chain after its tip was dropped is not followed further.
ChainDrop == chain_valid' = FALSE /\ UNCHANGED unspent

\* ------------------------------------------------------------------ driver
\* bitcoind's block at a height: its hash stands for the chain up to it, its
\* hashPrevBlock for the chain below it.
NodeBlock(chain, n) ==
    [hash |-> SubSeq(chain, 1, n + 1), prev |-> SubSeq(chain, 1, n), body |-> chain[n + 1]]

\* getblockcount: the height of the best chain's tip.
NodeHeight(chain) == Len(chain) - 1

\* The fetch thread's cblock while it holds none.
NoBlock == [hash |-> <<>>, prev |-> <<>>, body |-> "none"]

\* The bodies the node's blocks carry.
NodeBodies == {"empty", "credit_A"}

\* bitcoind receives a block on top of its chain.
node_extend(body) ==
    /\ Len(node_chain) < MaxChain
    /\ node_chain' = Append(node_chain, body)
    /\ UNCHANGED <<n_reorgs, fetchVars, facadeVars, stopVars, chainVars, storeVars,
                   cacheVars, commitVars, readerVars, procVars, w_last, envVars>>

\* bitcoind replaces its tip block by another block of the same height.
node_reorg(body) ==
    /\ n_reorgs < MaxReorgs
    /\ Len(node_chain) >= 2
    /\ body # node_chain[Len(node_chain)]
    /\ node_chain' = [node_chain EXCEPT ![Len(node_chain)] = body]
    /\ n_reorgs' = n_reorgs + 1
    /\ UNCHANGED <<fetchVars, facadeVars, stopVars, chainVars, storeVars, cacheVars,
                   commitVars, readerVars, procVars, w_last, envVars>>

\* The height _fetch_thread_func puts next to a cblock: current_height, read
\* before it is incremented, while the cblock is that of current_height + 1.
PutHeight(current_height) == current_height

\* _fetch_thread_func from the top of its loop to the block request: after a
\* purge it takes the new queue and restarts below self._height; it leaves the
\* loop when the stop event is set; otherwise it asks the node for the block at
\* current_height + 1.  A height the node does not serve yet keeps the thread
\* polling (the node serves at least the height 1 the thread assumes at its
\* start); a negative height is refused by the node with an error the thread
\* does not catch.
ft_fetch ==
    /\ ft_pc = "fetch"
    /\ LET cur == IF ft_stale THEN bc_height - 1 ELSE ft_current
       IN  /\ ft_stale \/ bc_stop_event \/ cur + 1 < 0 \/ cur + 1 <= NodeHeight(node_chain)
           /\ ft_current' = cur
           /\ ft_stale' = FALSE
           /\ ft_old_full' = FALSE
           /\ IF bc_stop_event
              THEN ft_pc' = "done" /\ UNCHANGED ft_block
              ELSE IF cur + 1 < 0
              THEN ft_pc' = "dead" /\ UNCHANGED ft_block
              ELSE IF cur + 1 <= NodeHeight(node_chain)
              THEN ft_pc' = "put" /\ ft_block' = NodeBlock(node_chain, cur + 1)
              ELSE UNCHANGED <<ft_pc, ft_block>>
    /\ UNCHANGED <<bc_height, bc_queue, nodeVars, facadeVars, stopVars, chainVars,
                   storeVars, cacheVars, commitVars, readerVars, procVars, w_last, envVars>>

\* The mutation "the entry is put into self._cache, the queue in use".
PutQueue_InUse(stale, queue, entry) == Append(queue, entry)

\* The queue in use after the fetch thread's put into its local queue `cache`:
\* the entry is in it unless set_height has replaced the thread's queue.
PutQueue(stale, queue, entry) == IF stale THEN queue ELSE Append(queue, entry)

\* _fetch_thread_func's put loop: the entry goes to the thread's local queue.
\* A queue that set_height has replaced and filled takes nothing any more, and
\* the loop does not look at self._cache again; it is left without a put only
\* when the stop event is set.
ft_put ==
    /\ ft_pc = "put"
    /\ IF (IF ft_stale THEN ~ft_old_full ELSE Len(bc_queue) < MaxQueue)
       THEN /\ bc_queue' = PutQueue(ft_stale, bc_queue,
                                    [height |-> PutHeight(ft_current), cblock |-> ft_block])
            /\ ft_current' = ft_current + 1
            /\ ft_block' = NoBlock
       ELSE /\ bc_stop_event
            /\ UNCHANGED <<bc_queue, ft_current, ft_block>>
    /\ ft_pc' = "fetch"
    /\ UNCHANGED <<bc_height, ft_stale, ft_old_full, nodeVars, facadeVars, stopVars,
                   chainVars, storeVars, cacheVars, commitVars, readerVars, procVars,
                   w_last, envVars>>

\* The prevouts of a node block's inputs: that of its coinbase transaction,
\* then those of the outputs the block spends.
CBlockPrevouts(body) ==
    <<[hash |-> PRIMITIVES_COINBASE_TX, n |-> 0]>>
    \o [i \in 1..Len(BodyVin(body)) |-> [hash |-> BodyVin(body)[i].tx,
                                         n |-> BodyVin(body)[i].nout]]

\* TxOutCache.get_txout(txhash, nout): the output the prevout names.
get_txout(txhash, nout) ==
    CHOOSE o \in {TxA1, TxB1, TxA0, TxNone} : o.tx = txhash /\ o.nout = nout

\* BlockFactory._transaction_inputs over a block: an input whose prevout hash
\* is the coinbase's is left out, any other is the output its prevout names.
transaction_inputs(prevouts) ==
    LET kept == SelectSeq(prevouts, LAMBDA p : p.hash # PRIMITIVES_COINBASE_TX)
    IN  [i \in 1..Len(kept) |-> get_txout(kept[i].hash, kept[i].n)]

\* BlockFactory.build_block(cblock, height)
build_block(cblock, height) ==
    [block_hash |-> cblock.hash, height |-> height,
     vin |-> transaction_inputs(CBlockPrevouts(cblock.body)),
     vout |-> BodyVout(cblock.body)]

\* deque.pop(): the sequence without its last element.
Front(q) == SubSeq(q, 1, Len(q) - 1)

\* BitcoinBalanceFacade._add_block(block)
facade_add_block(block) ==
    /\ LET full == Len(f_block_hash) >= W
       IN  /\ f_block_hash' = Append(IF full THEN Tail(f_block_hash) ELSE f_block_hash,
                                     block.block_hash)
           /\ f_block_height' = Append(IF full THEN Tail(f_block_height) ELSE f_block_height,
                                       block.height)
    /\ add_block(block)
    /\ ChainAdd(block)
    /\ UNCHANGED <<bc_height, ft_pc, ft_current, ft_block, ft_stale, ft_old_full,
                   nodeVars, stopVars>>

\* BitcoinBalanceFacade._backtrack() up to set_height's exchange of the queue:
\* BacktrackError when the facade tracks no block; otherwise the newest hash and
\* height are popped, the processor's backtrack is called and the prefetching
\* cache gets a new queue and the popped height.
facade_backtrack ==
    IF f_block_height = <<>>
    THEN /\ f_pc' = "dead"
         /\ w_last' = [op |-> "_backtrack", outcome |-> "BacktrackError"]
         /\ UNCHANGED <<f_block_hash, f_block_height, fetchVars, nodeVars, stopVars,
                        chainVars, storeVars, cacheVars, commitVars, readerVars,
                        procVars, envVars>>
    ELSE /\ f_block_hash' = Front(f_block_hash)
         /\ f_block_height' = Front(f_block_height)
         /\ backtrack
         /\ ChainDrop
         /\ bc_height' = f_block_height[Len(f_block_height)]
         /\ ft_stale' = TRUE
         /\ ft_old_full' = (ft_stale /\ ft_old_full)
         /\ f_pc' = "purge"
         /\ UNCHANGED <<ft_pc, ft_current, ft_block, nodeVars, stopVars>>

\* The entry get_next_block returns does not follow the facade's newest block.
Mismatch(entry) ==
    f_block_hash # <<>> /\ entry.cblock.prev # f_block_hash[Len(f_block_hash)]

\* The top of _poll_thread_func's loop: with the stop flag set the thread stops
\* the prefetching cache and ends, otherwise it enters get_next_block.
facade_loop ==
    /\ f_pc = "poll"
    /\ IF f_stop_flag
       THEN bc_stop_event' = TRUE /\ f_pc' = "done"
       ELSE f_pc' = "get" /\ UNCHANGED bc_stop_event
    /\ UNCHANGED <<f_block_hash, f_block_height, f_stop_flag, fetchVars, nodeVars,
                   chainVars, storeVars, cacheVars, commitVars, readerVars, procVars,
                   w_last, envVars>>

\* The rest of a round of _poll_thread_func: get_next_block waits, without a
\* timeout, for the next entry of the queue; a block that does not follow the
\* newest tracked block is dropped for one _backtrack, any other block is built
\* and added.
facade_poll ==
    /\ f_pc \in {"get", "build"}
    /\ commit_pc = "idle"
    /\ bc_queue # <<>>
    /\ LET entry == Head(bc_queue)
       IN  IF Mismatch(entry)
           THEN /\ facade_backtrack
                /\ bc_queue' = <<>>
           ELSE /\ facade_add_block(build_block(entry.cblock, entry.height))
                /\ bc_queue' = Tail(bc_queue)
                /\ f_pc' = "poll"

\* The mutation "a block that could not be built is given up".
AfterBuildFailure_Dropped(queue) == Tail(queue)

\* The blocks waiting for the poll thread after build_block raised: cblock and
\* height stay the loop's own, the block is still the next one to build.
AfterBuildFailure(queue) == queue

\* build_block raises inside the poll thread's inner loop: ConnectionError while
\* the node is out of reach, ChainError (caught as Exception) for a transaction
\* the node refuses.  Nothing is added; the thread waits on the stop flag.
facade_build_fails(e) ==
    /\ f_pc \in {"get", "build"}
    /\ commit_pc = "idle"
    /\ bc_queue # <<>>
    /\ ~Mismatch(Head(bc_queue))
    /\ bc_queue' = AfterBuildFailure(bc_queue)
    /\ f_pc' = "wait"
    /\ w_last' = [op |-> "build_block", outcome |-> e]
    /\ UNCHANGED <<f_block_hash, f_block_height, bc_height, ft_pc, ft_current, ft_block,
                   ft_stale, ft_old_full, nodeVars, stopVars, chainVars, storeVars,
                   cacheVars, commitVars, readerVars, procVars, envVars>>

\* self._stop_flag.wait(timeout=BITCOIND_POLL_PERIOD) after the failure: the
\* thread returns when the flag is set, otherwise it builds the same block again.
facade_retry ==
    /\ f_pc = "wait"
    /\ f_pc' = IF f_stop_flag THEN "done" ELSE "build"
    /\ UNCHANGED <<f_block_hash, f_block_height, fetchVars, nodeVars, stopVars, chainVars,
                   storeVars, cacheVars, commitVars, readerVars, procVars, w_last, envVars>>

\* The rest of set_height: the replaced queue is emptied and then filled with
\* (None, None) entries.
facade_purge ==
    /\ f_pc = "purge"
    /\ ft_old_full' = ft_stale
    /\ f_pc' = "poll"
    /\ UNCHANGED <<f_block_hash, f_block_height, bc_height, bc_queue, ft_pc, ft_current,
                   ft_block, ft_stale, nodeVars, stopVars, chainVars, storeVars, cacheVars,
                   commitVars, readerVars, procVars, w_last, envVars>>

\* self._balance_processor.commit(): BalanceProcessor defines no commit.
processor_commit == [raised |-> "AttributeError"]

\* BitcoinBalanceFacade.stop(), called from another thread than the poll
\* thread and without the facade's lock: the processor's commit comes first,
\* and its exception leaves stop before the stop flag is set.
facade_stop ==
    /\ IF processor_commit.raised # "none"
       THEN /\ w_last' = [op |-> "stop", outcome |-> processor_commit.raised]
            /\ UNCHANGED f_stop_flag
       ELSE /\ w_last' = [op |-> "stop", outcome |-> "ok"]
            /\ f_stop_flag' = TRUE
    /\ UNCHANGED <<f_block_hash, f_block_height, f_pc, bc_stop_event, fetchVars, nodeVars,
                   chainVars, storeVars, cacheVars, commitVars, readerVars, procVars,
                   envVars>>

\* BitcoinBalanceFacade.get_balance(address): under the facade's lock it calls
\* the processor's get_balance(address, confirmations) with the address alone.
facade_get_balance(a) ==
    /\ w_last' = [op |-> "facade_get_balance", outcome |-> "TypeError"]
    /\ UNCHANGED <<driverVars, chainVars, storeVars, cacheVars, commitVars, readerVars,
                   procVars, envVars>>

\* ------------------------------------------------- TxOutCache, BlockFactory
\* The transactions the node knows: vin holds the prevouts, vout the values of
\* the outputs.  x2 has an output of value 0, which x3 spends.
Prevout(tx, n) == [tx |-> tx, nout |-> n]
NodeTxIds == {"x1", "x2", "x3"}
\* A transaction id the node refuses.
UnknownTx == "xu"

NodeTx(id) ==
    CASE id = "x1" -> [id |-> "x1", vin |-> <<Prevout(PRIMITIVES_COINBASE_TX, 0)>>, vout |-> <<1>>]
      [] id = "x2" -> [id |-> "x2", vin |-> <<Prevout("x1", 0)>>, vout |-> <<0, 1>>]
      [] id = "x3" -> [id |-> "x3", vin |-> <<Prevout("x2", 0)>>, vout |-> <<1>>]
      [] OTHER -> [id |-> "xs", vin |-> <<Prevout(UnknownTx, 0)>>, vout |-> <<1>>]

\* The blocks (their vtx) handed to build_block.
FactoryBlocks ==
    { <<NodeTx("x1")>>, <<NodeTx("x2")>>, <<NodeTx("x1"), NodeTx("x2")>>,
      <<NodeTx("x2"), NodeTx("x3")>>, <<NodeTx("xs")>> }

\* The (tx, nout) pairs get_txout and add_txout are called with.
TxOutKeys ==
    {Prevout("x1", 0), Prevout("x1", 1), Prevout("x2", 0), Prevout("x2", 1),
     Prevout(UnknownTx, 0)}
NoKey == Prevout("", 0)

KeyIn(c, k) == \E i \in 1..Len(c) : c[i] = k
KeyRemove(c, k) == SelectSeq(c, LAMBDA e : e # k)

\* The mutation "the entry is removed only when the cache is over its size".
EvictFirst_WhenOver(c, size) == IF Len(c) > size THEN Tail(c) ELSE c

\* add_txout's popitem(last=False) under its test len >= max_size.
EvictFirst(c, size) == IF Len(c) >= size THEN Tail(c) ELSE c

\* self._txout_cache[txout] = txout: a key the dictionary holds keeps its
\* place, a new one goes to the end.
SetTxOut(c, k) == IF KeyIn(c, k) THEN c ELSE Append(c, k)

\* TxOutCache.add_txout(txout) on the dictionary c; popitem on an empty
\* dictionary raises KeyError.
AddTxOut(c, size, k) ==
    IF Len(c) >= size /\ c = <<>>
    THEN [cache |-> c, raised |-> "KeyError"]
    ELSE [cache |-> SetTxOut(EvictFirst(c, size), k), raised |-> "none"]

\* The order of use after a read or an insert of k, for the keys of c.
Touch(used, c, k) ==
    SelectSeq(KeyRemove(used, k), LAMBDA e : KeyIn(c, e)) \o (IF KeyIn(c, k) THEN <<k>> ELSE <<>>)

\* TxOutCache(proxy, size)
TxOutCache_init(size) ==
    /\ toc_pc = "new"
    /\ toc_max_size' = size
    /\ toc_pc' = "idle"
    /\ UNCHANGED <<txout_cache, toc_used, toc_req, toc_i, toc_depth, toc_rpcs, toc_last,
                   factoryVars, memVars, proxyVars, lockVars, storeVars, cacheVars, commitVars, readerVars,
                   procVars, w_last, callerVars>>

\* One call of add_txout(k) on the cache, with what it leaves in toc_last.
AddStep(k, op) ==
    LET res == AddTxOut(txout_cache, toc_max_size, k)
    IN  /\ txout_cache' = res.cache
        /\ toc_used' = Touch(toc_used, res.cache, k)
        /\ toc_last' = [op |-> op, key |-> k,
                        outcome |-> IF res.raised = "none" THEN "ok" ELSE res.raised]

\* TxOutCache.add_txout(txout), called on its own.
add_txout(k) ==
    /\ toc_pc = "idle" /\ bf_pc = "idle"
    /\ AddStep(k, "add_txout")
    /\ UNCHANGED <<toc_max_size, toc_pc, toc_req, toc_i, toc_depth, toc_rpcs,
                   factoryVars, memVars, proxyVars, lockVars, storeVars, cacheVars, commitVars, readerVars,
                   procVars, w_last, callerVars>>

\* The lookup at the start of get_txout(txhash, nout): a hit returns the
\* entry and leaves the dictionary's order as it is; a miss goes on to the
\* node, unless the recursion is at the interpreter's limit.
TxOutLookup(k, depth) ==
    /\ toc_req' = k
    /\ IF KeyIn(txout_cache, k)
       THEN /\ toc_pc' = "idle"
            /\ toc_used' = Touch(toc_used, txout_cache, k)
            /\ toc_last' = [op |-> "get_txout", key |-> k, outcome |-> "ok"]
            /\ toc_depth' = 0
       ELSE IF depth >= RecursionLimit
       THEN /\ toc_pc' = "idle"
            /\ toc_last' = [op |-> "get_txout", key |-> k, outcome |-> "RecursionError"]
            /\ toc_depth' = 0
            /\ UNCHANGED toc_used
       ELSE /\ toc_pc' = "rpc"
            /\ toc_depth' = depth + 1
            /\ UNCHANGED <<toc_used, toc_last>>
    /\ UNCHANGED <<txout_cache, toc_max_size, toc_i>>

\* TxOutCache.get_txout(txhash, nout), called on its own.
toc_get_txout(k) ==
    /\ toc_pc = "idle" /\ bf_pc = "idle"
    /\ TxOutLookup(k, 0)
    /\ toc_rpcs' = 0
    /\ UNCHANGED <<factoryVars, memVars, proxyVars, lockVars, storeVars, cacheVars, commitVars, readerVars,
                   procVars, w_last, callerVars>>

\* proxy.get_transaction(txhash) inside get_txout: ConnectionError while the
\* node cannot be reached, ChainError for a transaction the node refuses.
toc_rpc(up) ==
    /\ toc_pc = "rpc"
    /\ IF ~up
       THEN /\ toc_pc' = "idle"
            /\ toc_last' = [op |-> "get_txout", key |-> toc_req, outcome |-> "ConnectionError"]
            /\ toc_depth' = 0
            /\ UNCHANGED <<toc_rpcs, toc_i>>
       ELSE /\ toc_rpcs' = toc_rpcs + 1
            /\ IF toc_req.tx \notin NodeTxIds
               THEN /\ toc_pc' = "idle"
                    /\ toc_last' = [op |-> "get_txout", key |-> toc_req, outcome |-> "ChainError"]
                    /\ toc_depth' = 0
                    /\ UNCHANGED toc_i
               ELSE /\ toc_pc' = "adding"
                    /\ toc_i' = 0
                    /\ UNCHANGED <<toc_last, toc_depth>>
    /\ UNCHANGED <<txout_cache, toc_max_size, toc_used, toc_req, factoryVars, memVars, proxyVars, lockVars,
                   storeVars, cacheVars, commitVars, readerVars, procVars, w_last, callerVars>>

\* One round of get_txout's loop over tx.vout: the output is added whatever
\* its value; after the last one get_txout calls itself.
toc_add_output ==
    /\ toc_pc = "adding"
    /\ IF toc_i < Len(NodeTx(toc_req.tx).vout)
       THEN LET res == AddTxOut(txout_cache, toc_max_size, Prevout(toc_req.tx, toc_i))
            IN  /\ txout_cache' = res.cache
                /\ toc_used' = Touch(toc_used, res.cache, Prevout(toc_req.tx, toc_i))
                /\ toc_i' = toc_i + 1
                /\ IF res.raised = "none"
                   THEN UNCHANGED <<toc_pc, toc_last, toc_depth>>
                   ELSE /\ toc_pc' = "idle"
                        /\ toc_depth' = 0
                        /\ toc_last' = [op |-> "get_txout", key |-> toc_req,
                                        outcome |-> res.raised]
       ELSE /\ toc_pc' = "retry"
            /\ UNCHANGED <<txout_cache, toc_used, toc_i, toc_last, toc_depth>>
    /\ UNCHANGED <<toc_max_size, toc_req, toc_rpcs, factoryVars, memVars, proxyVars, lockVars, storeVars,
                   cacheVars, commitVars, readerVars, procVars, w_last, callerVars>>

\* return self.get_txout(txhash, nout)
toc_retry ==
    /\ toc_pc = "retry"
    /\ TxOutLookup(toc_req, toc_depth)
    /\ UNCHANGED <<toc_rpcs, factoryVars, memVars, proxyVars, lockVars, storeVars, cacheVars, commitVars,
                   readerVars, procVars, w_last, callerVars>>

\* The outputs of a block in the order of _block_outputs.
RECURSIVE BlockOutputs(_)
BlockOutputs(vtx) ==
    IF vtx = <<>> THEN <<>>
    ELSE [n \in 1..Len(Head(vtx).vout) |->
              [key |-> Prevout(Head(vtx).id, n - 1), value |-> Head(vtx).vout[n]]]
         \o BlockOutputs(Tail(vtx))

\* The prevouts of a block in the order of _block_inputs, those of a coinbase
\* left out as _transaction_inputs leaves them out.
RECURSIVE BlockInputs(_)
BlockInputs(vtx) ==
    IF vtx = <<>> THEN <<>>
    ELSE SelectSeq(Head(vtx).vin, LAMBDA p : p.tx # PRIMITIVES_COINBASE_TX)
         \o BlockInputs(Tail(vtx))

\* The mutation "every output of the block is added to the cache".
CachedOutput_Any(out) == TRUE

\* build_block's test of the outputs it adds to the cache.
CachedOutput(out) == out.value > 0

\* BlockFactory.build_block(block, height) up to its loop over the outputs.
build_block_call(vtx) ==
    /\ toc_pc = "idle" /\ bf_pc = "idle"
    /\ bf_block' = vtx
    /\ bf_pc' = "outputs"
    /\ bf_i' = 1
    /\ UNCHANGED <<txoutVars, memVars, proxyVars, lockVars, storeVars, cacheVars, commitVars, readerVars,
                   procVars, w_last, callerVars>>

\* One round of build_block's loop over the outputs.
build_block_output ==
    /\ bf_pc = "outputs"
    /\ LET outs == BlockOutputs(bf_block)
       IN  IF bf_i > Len(outs)
           THEN /\ bf_pc' = "inputs"
                /\ bf_i' = 1
                /\ UNCHANGED <<txout_cache, toc_used, toc_last>>
           ELSE IF ~CachedOutput(outs[bf_i])
           THEN /\ bf_i' = bf_i + 1
                /\ UNCHANGED <<bf_pc, txout_cache, toc_used, toc_last>>
           ELSE /\ AddStep(outs[bf_i].key, "build_block")
                /\ IF AddTxOut(txout_cache, toc_max_size, outs[bf_i].key).raised = "none"
                   THEN bf_i' = bf_i + 1 /\ UNCHANGED bf_pc
                   ELSE bf_pc' = "idle" /\ UNCHANGED bf_i
    /\ UNCHANGED <<bf_block, toc_max_size, toc_pc, toc_req, toc_i, toc_depth, toc_rpcs,
                   memVars, proxyVars, lockVars, storeVars, cacheVars, commitVars, readerVars, procVars,
                   w_last, callerVars>>

\* One round of _transaction_inputs' loop: the call of get_txout for the next
\* prevout, or the end of build_block after the last one.
build_block_input ==
    /\ bf_pc = "inputs"
    /\ LET ins == BlockInputs(bf_block)
       IN  IF bf_i > Len(ins)
           THEN /\ bf_pc' = "idle"
                /\ toc_last' = [op |-> "build_block", key |-> NoKey, outcome |-> "ok"]
                /\ UNCHANGED <<bf_i, txout_cache, toc_max_size, toc_used, toc_pc, toc_req,
                               toc_i, toc_depth, toc_rpcs>>
           ELSE /\ TxOutLookup(ins[bf_i], 0)
                /\ toc_rpcs' = 0
                /\ bf_pc' = "wait"
                /\ UNCHANGED bf_i
    /\ UNCHANGED <<bf_block, memVars, proxyVars, lockVars, storeVars, cacheVars, commitVars, readerVars,
                   procVars, w_last, callerVars>>

\* get_txout has returned to _transaction_inputs: its exception leaves
\* build_block, its entry goes to the inputs.
build_block_resume ==
    /\ bf_pc = "wait" /\ toc_pc = "idle"
    /\ IF toc_last.outcome = "ok"
       THEN bf_pc' = "inputs" /\ bf_i' = bf_i + 1
       ELSE bf_pc' = "idle" /\ UNCHANGED bf_i
    /\ UNCHANGED <<bf_block, txoutVars, memVars, proxyVars, lockVars, storeVars, cacheVars, commitVars,
                   readerVars, procVars, w_last, callerVars>>

\* ------------------------------------------------------------ BitcoindProxy
\* The mutation "a transport error leaves self._proxy as it was".
RpcResult_KeepsProxy(proxy, up) ==
    IF proxy = "None" THEN [outcome |-> "ConnectionError", node_called |-> FALSE, proxy |-> "None"]
    ELSE IF up THEN [outcome |-> "ok", node_called |-> TRUE, proxy |-> proxy]
    ELSE [outcome |-> "ConnectionError", node_called |-> TRUE, proxy |-> proxy]

\* handle_connection_errors around an RPC method: without a connection it
\* raises ConnectionError before the method runs; a transport error of the
\* method sets self._proxy to None and is raised as ConnectionError.
RpcResult(proxy, up) ==
    IF proxy = "None" THEN [outcome |-> "ConnectionError", node_called |-> FALSE, proxy |-> "None"]
    ELSE IF up THEN [outcome |-> "ok", node_called |-> TRUE, proxy |-> proxy]
    ELSE [outcome |-> "ConnectionError", node_called |-> TRUE, proxy |-> "None"]

RpcMethods == {"get_block", "get_blockcount", "get_transaction"}

\* bitcoind becomes reachable or unreachable.
node_switch ==
    /\ px_node_up' = ~px_node_up
    /\ UNCHANGED <<px_proxy, px_lock, px_stop_event, px_rc_pc, px_last, memVars, lockVars, txoutVars,
                   factoryVars, storeVars, cacheVars, commitVars, readerVars, procVars,
                   w_last, callerVars>>

\* BitcoindProxy.__enter__: a caller's `with proxy`.
px_enter ==
    /\ px_lock = "free"
    /\ px_lock' = "caller"
    /\ UNCHANGED <<px_proxy, px_stop_event, px_rc_pc, px_node_up, px_last, memVars, lockVars,
                   txoutVars, factoryVars, storeVars, cacheVars, commitVars, readerVars,
                   procVars, w_last, callerVars>>

\* get_block, get_blockcount or get_transaction, called inside `with proxy`.
px_call(method) ==
    /\ px_lock = "caller"
    /\ LET res == RpcResult(px_proxy, px_node_up)
       IN  /\ px_proxy' = res.proxy
           /\ px_last' = [op |-> method, outcome |-> res.outcome,
                          node_called |-> res.node_called]
    /\ UNCHANGED <<px_lock, px_stop_event, px_rc_pc, px_node_up, memVars, lockVars, txoutVars,
                   factoryVars, storeVars, cacheVars, commitVars, readerVars, procVars,
                   w_last, callerVars>>

\* BitcoindProxy.__exit__
px_exit ==
    /\ px_lock = "caller"
    /\ px_lock' = "free"
    /\ UNCHANGED <<px_proxy, px_stop_event, px_rc_pc, px_node_up, px_last, memVars, lockVars,
                   txoutVars, factoryVars, storeVars, cacheVars, commitVars, readerVars,
                   procVars, w_last, callerVars>>

\* BitcoindProxy.stop()
px_stop ==
    /\ ~px_stop_event
    /\ px_stop_event' = TRUE
    /\ UNCHANGED <<px_proxy, px_lock, px_rc_pc, px_node_up, px_last, memVars, lockVars, txoutVars,
                   factoryVars, storeVars, cacheVars, commitVars, readerVars, procVars,
                   w_last, callerVars>>

\* _reconnect_thread_func: the wait of reconnect_period on the stop event.
rc_wait ==
    /\ px_rc_pc = "wait"
    /\ px_rc_pc' = IF px_stop_event THEN "done" ELSE "lock"
    /\ UNCHANGED <<px_proxy, px_lock, px_stop_event, px_node_up, px_last, memVars, lockVars,
                   txoutVars, factoryVars, storeVars, cacheVars, commitVars, readerVars,
                   procVars, w_last, callerVars>>

\* _reconnect_thread_func: `with self._lock`.
rc_acquire ==
    /\ px_rc_pc = "lock"
    /\ px_lock = "free"
    /\ px_lock' = "reconnect"
    /\ px_rc_pc' = "locked"
    /\ UNCHANGED <<px_proxy, px_stop_event, px_node_up, px_last, memVars, lockVars, txoutVars,
                   factoryVars, storeVars, cacheVars, commitVars, readerVars, procVars,
                   w_last, callerVars>>

\* _reconnect_thread_func under the lock: nothing while a connection exists,
\* otherwise _connect(), whose getblockcount decides whether self._proxy is set.
rc_connect ==
    /\ px_rc_pc = "locked"
    /\ IF px_proxy # "None"
       THEN UNCHANGED <<px_proxy, px_last>>
       ELSE /\ px_proxy' = IF px_node_up THEN "conn" ELSE "None"
            /\ px_last' = [op |-> "_connect",
                           outcome |-> IF px_node_up THEN "ok" ELSE "ConnectionError",
                           node_called |-> TRUE]
    /\ px_lock' = "free"
    /\ px_rc_pc' = "wait"
    /\ UNCHANGED <<px_stop_event, px_node_up, memVars, lockVars, txoutVars, factoryVars, storeVars,
                   cacheVars, commitVars, readerVars, procVars, w_last, callerVars>>

\* ------------------------------------------------------------------- locks
\* The locks of one follower: BitcoinBalanceFacade._lock,
\* BlockPrefetchingCache._lock, the _lock of the prefetcher's BitcoindProxy and
\* of the facade's BitcoindProxy, BalanceProxyCache._lock and the storage's _lock.
Locks == {"facade", "prefetcher", "proxy_bc", "proxy_f", "cache", "store"}

\* The poll thread, the fetch thread, the two proxies' reconnect threads, a
\* thread calling get_balance and a thread calling stop.
Threads == {"poll", "fetch", "reconnect_bc", "reconnect_f", "reader", "stopper"}

Acq(l) == [op |-> "acquire", lock |-> l]
Rel(l) == [op |-> "release", lock |-> l]

\* The mutation "the fetch thread takes the facade's lock inside its own".
FetchLocks_TakesFacade ==
    <<Acq("prefetcher"), Acq("facade"), Rel("facade"), Rel("prefetcher"),
      Acq("proxy_bc"), Rel("proxy_bc")>>

\* One round of _fetch_thread_func: the purge test under the prefetcher's
\* lock, then the requests inside `with self._proxy`.
FetchLocks == <<Acq("prefetcher"), Rel("prefetcher"), Acq("proxy_bc"), Rel("proxy_bc")>>

\* The lock operations of a code path, in the order the code performs them.
\* build_add: build_block's get_txout inside `with self._proxy`, then
\* _add_block.  backtrack: _backtrack with set_height inside the facade's lock.
\* stop() and get_next_block take no lock; the processor never calls the
\* BalanceProxyCache.
LockPath(path) ==
    CASE path = "build_add" -> <<Acq("proxy_f"), Rel("proxy_f"), Acq("facade"), Rel("facade")>>
      [] path = "backtrack" ->
            <<Acq("facade"), Acq("prefetcher"), Rel("prefetcher"), Rel("facade")>>
      [] path = "fetch" -> FetchLocks
      [] path = "reconnect_bc" -> <<Acq("proxy_bc"), Rel("proxy_bc")>>
      [] path = "reconnect_f" -> <<Acq("proxy_f"), Rel("proxy_f")>>
      [] path = "get_balance" -> <<Acq("facade"), Rel("facade")>>
      [] OTHER -> <<>>

\* The code paths a thread runs, one after the other in any order.
ThreadPaths(t) ==
    CASE t = "poll" -> {"build_add", "backtrack"}
      [] t = "fetch" -> {"fetch"}
      [] t = "reconnect_bc" -> {"reconnect_bc"}
      [] t = "reconnect_f" -> {"reconnect_f"}
      [] t = "reader" -> {"get_balance"}
      [] OTHER -> {"stop"}

NoPath == [path |-> "none", i |-> 0]

\* A thread enters one of its code paths.
lk_enter(t, path) ==
    /\ lk_pc[t] = NoPath
    /\ path \in ThreadPaths(t)
    /\ lk_pc' = [lk_pc EXCEPT ![t] = [path |-> path, i |-> 1]]
    /\ UNCHANGED <<lk_owner, memVars, txoutVars, factoryVars, proxyVars, storeVars,
                   cacheVars, commitVars, readerVars, procVars, w_last, callerVars>>

\* The next lock operation of the thread is an acquire of a lock another
\* thread holds.
Blocked(t) ==
    /\ lk_pc[t] # NoPath
    /\ lk_pc[t].i <= Len(LockPath(lk_pc[t].path))
    /\ LockPath(lk_pc[t].path)[lk_pc[t].i].op = "acquire"
    /\ lk_owner[LockPath(lk_pc[t].path)[lk_pc[t].i].lock] # "free"

\* A thread performs its next lock operation, or leaves the path after the
\* last one.  threading.Lock: acquire waits while the lock is held.
lk_step(t) ==
    /\ lk_pc[t] # NoPath
    /\ ~Blocked(t)
    /\ LET ops == LockPath(lk_pc[t].path)
           i == lk_pc[t].i
       IN  IF i > Len(ops)
           THEN /\ lk_pc' = [lk_pc EXCEPT ![t] = NoPath]
                /\ UNCHANGED lk_owner
           ELSE /\ lk_pc' = [lk_pc EXCEPT ![t] = [path |-> lk_pc[t].path, i |-> i + 1]]
                /\ lk_owner' = [lk_owner EXCEPT ![ops[i].lock] =
                                    IF ops[i].op = "acquire" THEN t ELSE "free"]
    /\ UNCHANGED <<memVars, txoutVars, factoryVars, proxyVars, storeVars, cacheVars,
                   commitVars, readerVars, procVars, w_last, callerVars>>

\* ------------------------------------------------------------ specification
\* A fresh database, or one that an earlier run left at height 0 with a balance.
InitialStores ==
    { [balance |-> EmptyMap, blocks |-> <<>>],
      [balance |-> [a \in {"A"} |-> 1], blocks |-> <<0>>] }

Init ==
    /\ \E s \in InitialStores :
          /\ db_balance = s.balance
          /\ db_blocks = s.blocks
          /\ storage_height = LoadHeight(s.blocks)
          /\ cache_height = LoadHeight(s.blocks)
    /\ update_calls = <<>>
    /\ cache = <<>>
    /\ updates = <<>>
    /\ trim_cache = TRUE
    /\ commit_pc = "idle"
    /\ commit_height = NoHeight
    /\ to_insert = EmptyMap
    /\ to_update = EmptyMap
    /\ to_delete = {}
    /\ r_pc = [r \in Readers |-> "idle"]
    /\ r_addr = [r \in Readers |-> NoAddress]
    /\ blocks = <<>>
    /\ address_balance = EmptyMap
    /\ address_records = [a \in Addr |-> <<>>]
    /\ w_last = [op |-> "init", outcome |-> "ok"]
    /\ mem_balance = EmptyMap
    /\ mem_height = NoHeight
    /\ unspent = [a \in Addr |-> StorageGet(a)]
    /\ chain_valid = TRUE
    /\ node_chain = <<"empty", "empty">>
    /\ n_reorgs = 0
    /\ bc_height = storage_height + 1
    /\ bc_queue = <<>>
    /\ ft_pc = "fetch"
    /\ ft_current = storage_height
    /\ ft_block = NoBlock
    /\ ft_stale = FALSE
    /\ ft_old_full = FALSE
    /\ f_block_hash = <<>>
    /\ f_block_height = <<>>
    /\ f_pc = "poll"
    /\ f_stop_flag = FALSE
    /\ bc_stop_event = FALSE
    /\ txout_cache = <<>>
    /\ toc_max_size = 0
    /\ toc_used = <<>>
    /\ toc_pc = "new"
    /\ toc_req = NoKey
    /\ toc_i = 0
    /\ toc_depth = 0
    /\ toc_rpcs = 0
    /\ toc_last = [op |-> "init", key |-> NoKey, outcome |-> "ok"]
    /\ bf_pc = "idle"
    /\ bf_block = <<>>
    /\ bf_i = 0
    /\ px_proxy = "None"
    /\ px_lock = "free"
    /\ px_stop_event = FALSE
    /\ px_rc_pc = "wait"
    /\ px_node_up = FALSE
    /\ px_last = [op |-> "init", outcome |-> "ok", node_called |-> FALSE]
    /\ lk_owner = [l \in Locks |-> "free"]
    /\ lk_pc = [t \in Threads |-> NoPath]

CommitSteps ==
    \/ \E h \in NoHeight..MaxHeight : commit(h)
    \/ commit_load
    \/ commit_merge
    \/ commit_store
    \/ commit_trim
    \/ commit_end

ReaderSteps == \E r \in Readers, a \in Addr : get(r, a)

UpdateSteps == \E a \in Addr, v \in Deltas \cup {0} : update(a, v)

ProcessorSteps ==
    \/ \E body \in Bodies :
          /\ NextBlockHeight <= MaxHeight
          /\ add_block(Block(NextBlockHeight, body))
          /\ ChainAdd(Block(NextBlockHeight, body))
          /\ UNCHANGED driverVars
    \/ backtrack /\ ChainDrop /\ UNCHANGED driverVars
    \/ \E a \in Addr : call_get_balance(a)

\* The arguments of a direct storage.update: insert may name any address,
\* update and delete name stored ones ("Address for update and delete must exist").
Balances == 1..2

MapsOver(as) == UNION {[d -> Balances] : d \in SUBSET as}

StoreSteps ==
    \/ \E ins \in MapsOver(Addr), upd \in MapsOver(DOMAIN db_balance),
          del \in SUBSET DOMAIN db_balance, h \in 0..MaxHeight :
          sql_update(ins, upd, del, h)
    \/ \E ins \in MapsOver(Addr), upd \in MapsOver(DOMAIN mem_balance),
          del \in SUBSET DOMAIN mem_balance, h \in 0..MaxHeight :
          mem_update(ins, upd, del, h)

\* The cache over a database that may refuse a transaction.
NextFault == UpdateSteps \/ CommitSteps \/ commit_store_fails

SpecFault == Init /\ [][NextFault]_vars

\* The two storages, driven through their own interface.
NextStore == StoreSteps

SpecStore == Init /\ [][NextStore]_vars

DriverSteps ==
    \/ \E body \in NodeBodies : node_extend(body)
    \/ \E body \in NodeBodies : node_reorg(body)
    \/ ft_fetch
    \/ ft_put
    \/ facade_loop
    \/ facade_poll
    \/ facade_purge
    \/ facade_stop
    \/ \E a \in Addr : facade_get_balance(a)

\* The facade's poll thread and the prefetching cache's fetch thread over a node
\* whose chain grows and whose tip block is replaced.
NextDriver == DriverSteps

SpecDriver == Init /\ [][NextDriver]_vars

BuildFaultSteps ==
    \/ \E e \in {"ConnectionError", "ChainError"} : facade_build_fails(e)
    \/ facade_retry

\* The follower over a node that may be out of reach or refuse a transaction
\* while the poll thread builds a block.
NextDriverFault == DriverSteps \/ BuildFaultSteps

SpecDriverFault == Init /\ [][NextDriverFault]_vars

\* The same with every thread of the follower running on: the fetch thread and
\* the poll thread take their next step whenever they can.
SpecDriverLive ==
    /\ SpecDriver
    /\ WF_vars(ft_fetch) /\ WF_vars(ft_put)
    /\ WF_vars(facade_loop) /\ WF_vars(facade_poll) /\ WF_vars(facade_purge)

\* The cache and its storage, driven through the cache's own interface.
NextCache == UpdateSteps \/ CommitSteps \/ ReaderSteps

SpecCache == Init /\ [][NextCache]_vars

OtherReaderSteps == \E a \in Addr : get_other(a)

\* Readers of the cache next to the writer's updates: the reader under watch
\* and the gets of other threads.
NextReaders == ReaderSteps \/ OtherReaderSteps \/ UpdateSteps

SpecReaders == Init /\ [][NextReaders]_vars

\* The same with the reader under watch running on.
SpecReadersLive == SpecReaders /\ WF_vars(ReaderSteps)

\* The processor as the repository runs it: blocks are added and backtracked,
\* the cache is committed and read, and nothing calls the cache's update.
NextProc == ProcessorSteps \/ CommitSteps \/ ReaderSteps

SpecProc == Init /\ [][NextProc]_vars

TxOutSteps ==
    \/ \E size \in 0..MaxTxOutSize : TxOutCache_init(size)
    \/ \E k \in TxOutKeys : add_txout(k)
    \/ \E k \in TxOutKeys : toc_get_txout(k)
    \/ \E up \in BOOLEAN : toc_rpc(up)
    \/ toc_add_output
    \/ toc_retry
    \/ \E vtx \in FactoryBlocks : build_block_call(vtx)
    \/ build_block_output
    \/ build_block_input
    \/ build_block_resume

\* One BlockFactory with its TxOutCache, used by one thread over a node that
\* may be out of reach.
NextTxOut == TxOutSteps

SpecTxOut == Init /\ [][NextTxOut]_vars

ProxySteps ==
    \/ node_switch
    \/ px_enter
    \/ \E method \in RpcMethods : px_call(method)
    \/ px_exit
    \/ px_stop
    \/ rc_wait
    \/ rc_acquire
    \/ rc_connect

\* One BitcoindProxy with its reconnect thread and one calling thread, over a
\* node that comes and goes.
NextProxy == ProxySteps

SpecProxy == Init /\ [][NextProxy]_vars

\* The same with the threads running on: the reconnect thread wakes up after
\* every reconnect_period and gets the lock, which a caller holds for one
\* call at a time.
SpecProxyLive ==
    /\ SpecProxy
    /\ WF_vars(rc_wait) /\ SF_vars(rc_acquire) /\ WF_vars(rc_connect) /\ WF_vars(px_exit)

LockSteps ==
    \/ \E t \in Threads, path \in {"build_add", "backtrack", "fetch", "reconnect_bc",
                                      "reconnect_f", "get_balance", "stop"} : lk_enter(t, path)
    \/ \E t \in Threads : lk_step(t)

\* The threads of one follower, each reduced to the lock operations of its code.
NextLocks == LockSteps

SpecLocks == Init /\ [][NextLocks]_vars

Next ==
    \/ UpdateSteps \/ CommitSteps \/ ReaderSteps \/ ProcessorSteps \/ StoreSteps
    \/ DriverSteps \/ commit_store_fails \/ TxOutSteps \/ BuildFaultSteps
    \/ ProxySteps \/ OtherReaderSteps \/ LockSteps

Spec == Init /\ [][Next]_vars

\* ------------------------------------------------------------------ claims
WriterIdle == commit_pc = "idle"

CommitDone == WriterIdle /\ w_last = [op |-> "commit", outcome |-> "done"]

CommitReturned ==
    WriterIdle /\ w_last.op = "commit" /\ w_last.outcome \in {"done", "noop"}

\* C1 (as claimed): after add_block, backtrack and commit, the balance that
\* get_balance reads for an address is the stored balance plus the cache's
\* pending delta plus the address's deltas over the blocks in the ring.
C1_BalanceConservation ==
    (WriterIdle /\ w_last.op \in {"add_block", "backtrack", "commit"})
        => \A a \in Addr :
              get_balance(a).balance = StorageGet(a) + Pending(a) + RingDelta(blocks, a)

\* C2: every step taken while a commit is running, the commit's own and the
\* readers', leaves the value get(a) returns unchanged for every address, so a
\* get before, during (also around the storage write) and after the commit
\* returns the same value.
C2_GetStableAcrossCommit ==
    [][(commit_pc # "idle" \/ commit_pc' # "idle")
          => \A a \in Addr : GetResult(a)' = GetResult(a)]_vars

\* A commit has merged a non-empty batch and not yet written it, while a reader
\* that missed is about to retry its get.
C2_Witness ==
    /\ commit_pc = "store"
    /\ DOMAIN to_insert # {}
    /\ \E r \in Readers : r_pc[r] = "retry"

\* C3 (as claimed): a backtrack that directly follows a successful add_block(B)
\* removes B from the ring, which restores the previous height, and leaves the
\* balance get_balance reads as it was.
C3_BacktrackUndoesAddBlock ==
    [][(backtrack /\ w_last = [op |-> "add_block", outcome |-> "ok"])
          => /\ blocks' = SubSeq(blocks, 1, Len(blocks) - 1)
             /\ \A a \in Addr : get_balance(a).balance' = get_balance(a).balance]_vars

\* C4 (as claimed): backtrack on an empty ring fails with BacktrackError and
\* changes neither the ring, nor a balance, nor the height.
C4_BacktrackOnEmptyRingFails ==
    [][(backtrack /\ blocks = <<>>)
          => /\ w_last'.outcome = "BacktrackError"
             /\ UNCHANGED <<blocks, db_balance, db_blocks, cache, updates, cache_height>>]_vars

\* C5: when commit(h) has classified the pending updates, an address with
\* baseline b in the storage and pending delta D is in insert with b + D when
\* b = 0, in delete when b + D = 0, in update with b + D otherwise, and in none
\* of them without a pending delta; the commit calls storage.update once, with
\* exactly these arguments and height h.
C5_CommitClassification ==
    /\ commit_pc = "merge" =>
          \A a \in Addr :
             LET b == StorageGet(a)
                 D == Pending(a)
             IN  /\ (a \in DOMAIN to_insert) <=> (D # 0 /\ b = 0)
                 /\ (a \in to_delete) <=> (D # 0 /\ b # 0 /\ b + D = 0)
                 /\ (a \in DOMAIN to_update) <=> (D # 0 /\ b # 0 /\ b + D # 0)
                 /\ a \in DOMAIN to_insert => to_insert[a] = b + D
                 /\ a \in DOMAIN to_update => to_update[a] = b + D
    /\ commit_pc \in {"load", "merge", "store"} => update_calls = <<>>
    /\ commit_pc \in {"trim", "end"} =>
          /\ update_calls = << [insert |-> to_insert, update |-> to_update,
                                delete |-> to_delete, height |-> commit_height] >>
          /\ commit_height = cache_height
    /\ CommitDone => Len(update_calls) = 1 /\ update_calls[1].height = cache_height

\* A commit has just written a batch that both inserts and deletes an address.
C5_Witness ==
    /\ commit_pc = "trim"
    /\ DOMAIN update_calls[1].insert # {}
    /\ update_calls[1].delete # {}

\* C6: the storage never holds a row whose balance is 0, whatever updates and
\* commits came before.
C6_ZeroSuppression == \A a \in DOMAIN db_balance : db_balance[a] # 0

\* A commit that deleted an address has completed.
C6_Witness == CommitDone /\ update_calls[1].delete # {}

\* C7 (as claimed): after commit(h) the persisted height is h and every durable
\* balance is the sum of the deltas of the blocks of height at most h.  Stated
\* for the runs whose ring still starts with the block of height 0, where the
\* ring holds every block added and the storage started empty.
C7_TipAtomicity ==
    CommitDone =>
       /\ LoadHeight(db_blocks) = cache_height
       /\ (blocks # <<>> /\ blocks[1].height = 0) =>
             \A a \in Addr :
                StorageGet(a) =
                   RingDelta(SelectSeq(blocks, LAMBDA b : b.height <= LoadHeight(db_blocks)), a)

\* C8 (as claimed): an add_block that drops no block from the ring changes
\* neither the stored balance nor the value the cache returns, for any address.
C8_RingBlockNotStored ==
    [][(blocks' # blocks /\ Len(blocks') = Len(blocks) + 1)
          => \A a \in Addr : /\ StorageGet(a)' = StorageGet(a)
                             /\ GetResult(a)' = GetResult(a)]_vars

\* C9 (as claimed): once commit(h) has returned, a storage opened on the same
\* database reports the cache's height and, for every address, the value get
\* returns.
C9_RoundTripAnyHeight ==
    CommitReturned =>
       /\ LoadHeight(db_blocks) = cache_height
       /\ \A a \in Addr : StorageGet(a) = GetResult(a)

\* C9 (amended): the same for a commit(h) with h above the cache's height, which
\* is the commit that reaches the storage.
C9_RoundTrip ==
    CommitDone =>
       /\ LoadHeight(db_blocks) = cache_height
       /\ \A a \in Addr : StorageGet(a) = GetResult(a)

\* A completed commit has stored a balance for B, which no initial database holds.
C9_Witness == CommitDone /\ "B" \in DOMAIN db_balance

\* C10 (as claimed): the add_block that drops the ring's oldest block adds that
\* block's deltas to the cache's pending updates, and no other add_block and no
\* backtrack changes them.
C10_ConfirmedIntoCache ==
    [][/\ (blocks' # blocks /\ Len(blocks') <= Len(blocks))
             => \A a \in Addr : Pending(a)' = Pending(a) + BlockDelta(Head(blocks), a)
       /\ ((blocks' # blocks /\ Len(blocks') > Len(blocks)) \/ backtrack)
             => \A a \in Addr : Pending(a)' = Pending(a)]_vars

\* C11 (as claimed): a processor that has just been constructed on a storage
\* reports, for every address, the balance the storage holds, and reports the
\* storage's height.
C11_NewProcessorReportsStore ==
    w_last.op = "init" =>
       /\ \A a \in Addr : /\ get_balance(a).raised = "none"
                          /\ get_balance(a).balance = StorageGet(a)
       /\ top_block_height.raised = "none"
       /\ top_block_height.height = storage_height

\* C12 (as claimed): after add_block and backtrack the processor's height is the
\* height of the ring's last block, or the cache's height while the ring is
\* empty.
C12_HeightIsTailOrCacheTip ==
    (WriterIdle /\ w_last.op \in {"add_block", "backtrack"}) =>
       /\ top_block_height.raised = "none"
       /\ top_block_height.height =
             (IF blocks # <<>> THEN blocks[Len(blocks)].height ELSE cache_height)

\* C13 (as claimed): the ring never holds more than W blocks.
C13_RingAtMostW == Len(blocks) <= W

\* C17 (as claimed): storage.update with an insert address that is already stored
\* fails and changes nothing, neither a balance nor the height, in the SQL
\* storage and in the memory storage alike.
C17_InsertExistingFails ==
    [][/\ (w_last'.op = "sql_update" /\ w_last'.insert \cap DOMAIN db_balance # {})
             => /\ w_last'.outcome # "ok"
                /\ UNCHANGED <<db_balance, db_blocks, storage_height>>
       /\ (w_last'.op = "mem_update" /\ w_last'.insert \cap DOMAIN mem_balance # {})
             => /\ w_last'.outcome # "ok"
                /\ UNCHANGED <<mem_balance, mem_height>>]_vars

\* The SQL half of C17 alone, which holds.
C17_SQLInsertExistingFails ==
    [][(w_last'.op = "sql_update" /\ w_last'.insert \cap DOMAIN db_balance # {})
          => /\ w_last'.outcome # "ok"
             /\ UNCHANGED <<db_balance, db_blocks, storage_height>>]_vars

\* C18: whenever a storage.update has completed, the blocks table holds exactly
\* one row and it carries the height of that update.
C18_SingleTipRow ==
    (w_last.op = "sql_update" /\ w_last.outcome = "ok") =>
       (Len(db_blocks) = 1 /\ db_blocks[1] = storage_height)

\* A direct update has replaced the row of an earlier height by a higher one.
C18_Witness ==
    /\ w_last.op = "sql_update" /\ w_last.outcome = "ok"
    /\ db_blocks = <<MaxHeight>>
    /\ DOMAIN db_balance = Addr

\* C19 (as claimed): while no commit is in progress the cache holds at most
\* MaxCache addresses.
C19_CacheAtMostC == WriterIdle => Len(cache) <= MaxCache

\* C20: commit(h) with h equal to the cache's height returns without a storage
\* write and leaves the pending updates, the cached baselines, the storage and
\* the height as they were; commit(h) with h below the height is rejected the
\* same way; and no step ever lowers the cache's height.
C20_CommitAtOrBelowTip ==
    [][/\ \A h \in NoHeight..MaxHeight :
            (commit(h) /\ h <= cache_height)
               => /\ commit_pc' = "idle"
                  /\ w_last'.outcome = (IF h = cache_height THEN "noop" ELSE "AssertionError")
                  /\ update_calls' = <<>>
                  /\ UNCHANGED <<db_balance, db_blocks, storage_height, cache, updates,
                                 cache_height>>
       /\ cache_height' >= cache_height]_vars

\* A commit at the current height has returned while updates are pending and an
\* address is cached.
C20_Witness ==
    /\ w_last = [op |-> "commit", outcome |-> "noop"]
    /\ updates # <<>>
    /\ cache # <<>>
    /\ cache_height > NoHeight

C15_OneBacktrackPerReorg ==
    [][/\ (/\ facade_poll
           /\ blocks # <<>>
           /\ Head(bc_queue).cblock.prev # blocks[Len(blocks)].block_hash)
             => /\ blocks' = blocks
                /\ w_last'.op = "backtrack"
       /\ (f_pc = "get" /\ f_pc' = "purge") => w_last.op # "backtrack"]_vars

\* C16 (as claimed): the heights of the blocks in the processor's ring are
\* consecutive, and a block the driver adds has the height after that of the
\* ring's last block.
C16_ConsecutiveHeights ==
    \A i \in 1..(Len(blocks) - 1) : blocks[i + 1].height = blocks[i].height + 1

\* The sum of the values of the outputs in txos that belong to address a.
RECURSIVE SumValues(_, _)
SumValues(txos, a) ==
    IF txos = <<>> THEN 0
    ELSE (IF Head(txos).addr = a THEN Head(txos).value ELSE 0) + SumValues(Tail(txos), a)

C26_BlockDeltasTextHash ==
    [][(blocks' # blocks /\ w_last'.outcome = "ok"
          /\ blocks'[Len(blocks')].vin # <<TxCoinbaseIn>>) =>
         LET block == blocks'[Len(blocks')]
             outs == SelectSeq(block.vout, LAMBDA o : o.value # 0 /\ o.addr # "")
             ins == SelectSeq(block.vin, LAMBDA o : o.addr # "" /\ o.tx # COINBASE_TX)
         IN  \A a \in Addr :
                (IF a \in DOMAIN db_balance' THEN db_balance'[a] ELSE 0)
                  = StorageGet(a) + SumValues(outs, a) - SumValues(ins, a)]_vars

\* C25 (as claimed): when storage.update fails inside commit(h), the stored
\* balances and the stored height are as before the commit and the cache's
\* height is still the storage's height.
C25_FailedCommitNotPartial ==
    [][(commit_pc = "store" /\ w_last'.op = "commit"
          /\ w_last'.outcome \in {"IntegrityError", "SQLAlchemyError"})
         => /\ UNCHANGED <<db_balance, db_blocks, storage_height>>
            /\ cache_height' = storage_height']_vars

\* C27 (as claimed): every (height, block) pair waiting for get_next_block
\* carries the node's block of exactly that height.
C27_PairCarriesBlockOfHeight ==
    \A i \in DOMAIN bc_queue : bc_queue[i].height = Len(bc_queue[i].cblock.hash) - 1

C22_StopEndsThreads ==
    (w_last.op = "stop") ~> (f_pc = "done" /\ ft_pc = "done")

\* C23 (as claimed): no block is added to the ring after stop() has made its
\* call of the processor's commit.
C23_NoBlockAfterFinalCommit ==
    [][w_last.op = "stop" => blocks' = blocks]_vars

\* C24 (as claimed): a get_balance through the facade returns a balance, that
\* of the state before or after a whole block.
C24_GetBalanceWholeBlocks ==
    w_last.op = "facade_get_balance" => w_last.outcome = "ok"

\* C28: set_height leaves get_next_block an empty queue, and while the fetch
\* thread holds a block it fetched before set_height replaced the queue, its
\* put adds nothing to the queue get_next_block reads.
C28_NoStaleBlockServed ==
    [][/\ (f_pc # "purge" /\ f_pc' = "purge") => bc_queue' = <<>>
       /\ (ft_stale /\ ft_pc = "put") => Len(bc_queue') <= Len(bc_queue)]_vars

\* set_height has returned while the fetch thread holds a block of the sequence
\* before it, and the queue in use is empty.
C28_Witness ==
    ft_stale /\ ft_pc = "put" /\ ft_block # NoBlock /\ f_pc \in {"poll", "get"} /\ bc_queue = <<>>

\* C29 (as claimed): while stop() is never called, the fetch thread always
\* comes to take the new queue and to restart at the new height after a
\* set_height.
C29_FetchRestartsAfterPurge ==
    [](w_last.op # "stop") => (ft_stale ~> ~ft_stale)

\* C31: the prevout cache never holds more than max_size entries.
C31_AtMostMaxSize ==
    toc_pc # "new" => Len(txout_cache) <= toc_max_size

\* A full cache of two entries after an add that evicted one.
C31_Witness ==
    /\ toc_max_size = 2 /\ Len(txout_cache) = 2
    /\ toc_last.outcome = "ok" /\ toc_last.op \in {"add_txout", "build_block"}
    /\ ~KeyIn(txout_cache, Prevout("x1", 0)) /\ toc_used # txout_cache

\* C32 (as claimed): an entry that leaves the cache is the least recently used
\* one, reads and inserts counted.
C32_EvictsLeastRecentlyUsed ==
    [][\A k \in TxOutKeys \cup {Prevout("x3", 0)} :
          (KeyIn(txout_cache, k) /\ ~KeyIn(txout_cache', k)) => k = Head(toc_used)]_vars

\* C33 (as claimed): a get_txout calls the node at most once and ends with the
\* requested output or with the node's refusal.
C33_OneRequestThenReturn ==
    /\ toc_rpcs <= 1
    /\ toc_last.op = "get_txout" => toc_last.outcome \in {"ok", "ConnectionError", "ChainError"}

\* C34 (as claimed): build_block asks the node for no output of the block it
\* is building.
C34_SameBlockSpendFromCache ==
    (bf_pc = "wait" /\ toc_pc = "rpc")
        => \A i \in 1..Len(BlockOutputs(bf_block)) : BlockOutputs(bf_block)[i].key # toc_req

\* C35: a failure of build_block adds no block and changes no balance, and the
\* poll thread, until it ends, keeps that block as its next one: the block it
\* adds after the failure is the one whose build failed.
C35_FailedBuildRetriesSameBlock ==
    [][/\ (f_pc' = "wait" /\ f_pc # "wait")
            => UNCHANGED <<blocks, address_balance, address_records, db_balance,
                           f_block_hash, f_block_height>>
       /\ f_pc \in {"wait", "build"}
            => /\ bc_queue' # <<>> => Head(bc_queue') = Head(bc_queue) \/ blocks' # blocks
               /\ bc_queue' = <<>> => blocks' # blocks
               /\ blocks' # blocks
                    => blocks'[Len(blocks')].block_hash = Head(bc_queue).cblock.hash]_vars

\* The poll thread is about to build again a block whose build has failed.
C35_Witness ==
    f_pc = "build" /\ w_last.op = "build_block" /\ w_last.outcome = "ChainError"
        /\ bc_queue # <<>> /\ blocks # <<>>

C38_FacadeAndRingAgree ==
    f_pc \in {"poll", "get"}
        => /\ Len(f_block_hash) = Len(blocks)
           /\ Len(f_block_height) = Len(blocks)
           /\ blocks # <<>>
                => /\ blocks[Len(blocks)].block_hash = f_block_hash[Len(f_block_hash)]
                   /\ blocks[Len(blocks)].height = f_block_height[Len(f_block_height)]

\* C39 (as claimed): a get that has loaded its address after a miss comes to
\* return, whatever the gets of other threads do to the cache meanwhile.
C39_GetTerminates ==
    \A r \in Readers : (r_pc[r] = "retry") ~> (r_pc[r] = "idle")

\* The thread t waits, directly or through n further waiting threads, for a
\* thread that can go on.
RECURSIVE WaitEnds(_, _)
WaitEnds(t, n) ==
    \/ ~Blocked(t)
    \/ /\ n > 0
       /\ WaitEnds(lk_owner[LockPath(lk_pc[t].path)[lk_pc[t].i].lock], n - 1)

\* C40: no set of threads waits in a circle for each other's locks, and the
\* BalanceProxyCache's lock is held only by a thread that holds the facade's.
C40_NoLockDeadlock ==
    /\ \A t \in Threads : WaitEnds(t, Cardinality(Threads))
    /\ lk_owner["cache"] # "free" => lk_owner["facade"] = lk_owner["cache"]

\* The reader waits for the facade's lock, which the poll thread holds inside
\* _backtrack while it waits for the prefetcher's lock, held by the fetch thread.
C40_Witness ==
    /\ Blocked("reader") /\ Blocked("poll")
    /\ lk_owner["facade"] = "poll" /\ lk_owner["prefetcher"] = "fetch"

============================================================================
